---- MODULE Spec2Model ----
(***************************************************************************)
(* Model of the BSPED paediatric DKA calculator API: the calculation       *)
(* engine calculateVariables (modules/calculateVariables.js) evaluated     *)
(* against a configuration table and one validated clinical input.         *)
(*                                                                         *)
(* Numbers are exact fixed-point integers (IEEE-754 rounding of the JS     *)
(* doubles is not modelled):                                               *)
(*   weight            tenths of a kg                                      *)
(*   pH                hundredths                                          *)
(*   bicarbonate       tenths of a mmol/L                                  *)
(*   insulinRate       hundredths of a Unit/kg/hour                        *)
(*   volumes, caps     tenths of a mL                                      *)
(*   insulin rates     thousandths of a Unit/hour                          *)
(*   fluid rates       numerators over RateDen(cfg) mL/hour                *)
(* JavaScript values that may be a number, false or undefined are tagged   *)
(* records so that the coercions of <, >, - and * and the TypeError of     *)
(* calling toFixed on a non-number are computed as the language does.      *)
(***************************************************************************)
EXTENDS Integers, Sequences, FiniteSets, TLC

VARIABLES
    config,     \* the configuration table, loaded once
    data,       \* the input of the call in progress
    pc,         \* "idle", or how the last call ended: "returned" or "threw"
    result,     \* the tree calculateVariables returned
    errors,     \* the error list calculateVariables returned
    severity,   \* the local constant severity of the call
    consulted,  \* the tiers the classifier's loop tested, in order
    response,   \* what the /calculate handler has sent to the client
    imdDecile,  \* the handler's local imdDecile
    auditID,    \* the handler's local auditID
    episodes,   \* the rows of tbl_data_v2, in insertion order
    remembered, \* history: one earlier call, its input and what it gave back
    body,       \* req.body of the /calculate request in progress
    check,      \* the handler's local check
    sent,       \* how many answers res has sent to the request in progress
    openConnections, \* the functions that left their database connection open
    auditIDUnique,   \* whether tbl_data_v2 has a unique key on auditID
    racers,     \* concurrent /calculate requests: where each is, and its auditID
    update,     \* the /update request in progress: its locals and its answer
    updates     \* the rows of tbl_update_v2, in insertion order

engineVars == <<data, pc, result, errors, severity, consulted>>
raceVars == <<auditIDUnique, racers>>
updateVars == <<update, updates>>
handlerVars == <<response, imdDecile, auditID, episodes, body, check, sent,
                 openConnections, raceVars, updateVars>>
vars == <<config, data, pc, result, errors, severity, consulted,
          response, imdDecile, auditID, episodes, remembered,
          body, check, sent, openConnections, auditIDUnique, racers, update, updates>>

----------------------------------------------------------------------------
(* Bounds of the input space.                                              *)

MaxWeightSteps == 4
MaxPHSteps == 18
MaxBicSteps == 3
MaxAuditIDs == 2
MaxEpisodes == 2
MaxProcs == 2
MaxUpdates == 2

----------------------------------------------------------------------------
(* JavaScript values.                                                      *)

Num(n) == [t |-> "number", n |-> n]
JsFalse == [t |-> "boolean", n |-> 0]
Undefined == [t |-> "undefined", n |-> 0]
Null == [t |-> "null", n |-> 0]
\* A string, known by its number.
Str(k) == [t |-> "string", n |-> k]

IsNumber(x) == x.t = "number"
\* ToNumber(undefined) is NaN; ToNumber(false) is 0.
IsNaN(x) == x.t = "undefined"
ToNumber(x) == x.n

\* a < b and a > b on primitives: false whenever either side converts to NaN.
JsLessMutNullish(a, b) == ToNumber(a) < ToNumber(b)
JsLess(a, b) == ~IsNaN(a) /\ ~IsNaN(b) /\ ToNumber(a) < ToNumber(b)
JsGreater(a, b) == ~IsNaN(a) /\ ~IsNaN(b) /\ ToNumber(a) > ToNumber(b)

\* `${x}` in a template literal.
TemplateText(x) ==
    IF x.t = "undefined" THEN [shown |-> "undefined", n |-> 0]
    ELSE IF x.t = "boolean" THEN [shown |-> "false", n |-> 0]
    ELSE [shown |-> "digits", n |-> x.n]

\* The value the classifier returns when no tier matches (JS false).
NoSeverity == "false"

----------------------------------------------------------------------------
(* Configuration tables (config.json).                                     *)

Tier(lower, upper, bicBelow, pct) ==
    [pHRange |-> [lower |-> lower, upper |-> upper],
     bicarbonateBelow |-> bicBelow,
     deficitPercentage |-> pct]

Caps(bolus, glucoseBolus, hhsBolus, deficit5, deficit10, maintenance, insulin005, insulin01) ==
    [bolus |-> bolus, glucoseBolus |-> glucoseBolus, hhsBolus |-> hhsBolus,
     deficit5 |-> deficit5, deficit10 |-> deficit10, maintenance |-> maintenance,
     insulin005 |-> insulin005, insulin01 |-> insulin01]

ProtocolCaps == Caps(7500, 1500, 15000, 37500, 75000, 26000, 3750, 7500)

MkConfig(name, severe, moderate, mild, caps) ==
    [name |-> name,
     severity |-> [severe |-> severe, moderate |-> moderate, mild |-> mild],
     bolusMlsPerKg |-> 10, glucoseBolusMlsPerKg |-> 2, hhsBolusMlsPerKg |-> 20,
     caps |-> caps,
     deficitReplacementDuration |-> 48]

\* The protocol's table: contiguous pH ranges, nested bicarbonate thresholds.
ProtocolConfig ==
    MkConfig("protocol", Tier(650, 710, 50, 10), Tier(710, 720, 100, 5),
             Tier(720, 730, 150, 5), ProtocolCaps)

\* Overlapping and gapped pH ranges, and bicarbonate thresholds that are not nested.
OverlapConfig ==
    MkConfig("overlap", Tier(650, 700, 50, 10), Tier(690, 720, 150, 5),
             Tier(725, 735, 100, 5), ProtocolCaps)

\* Ceilings low enough to be reached by small children, and a mild tier whose
\* deficit percentage has no ceiling in capsMap.
LowCapsConfig ==
    MkConfig("lowCaps", Tier(650, 710, 50, 10), Tier(710, 720, 100, 5),
             Tier(720, 730, 150, 3), Caps(1000, 400, 1980, 5000, 10000, 10000, 500, 1000))

Configs == {ProtocolConfig, OverlapConfig, LowCapsConfig}

Contiguous(cfg) ==
    /\ cfg.severity.severe.pHRange.upper = cfg.severity.moderate.pHRange.lower
    /\ cfg.severity.moderate.pHRange.upper = cfg.severity.mild.pHRange.lower
    /\ cfg.severity.severe.pHRange.lower < cfg.severity.severe.pHRange.upper
    /\ cfg.severity.moderate.pHRange.lower < cfg.severity.moderate.pHRange.upper
    /\ cfg.severity.mild.pHRange.lower < cfg.severity.mild.pHRange.upper

----------------------------------------------------------------------------
(* Clinical inputs, as the engine's function boundary admits them: numeric  *)
(* weight, pH and insulin rate, optional numeric bicarbonate, boolean      *)
(* shockPresent. Weights every 25 kg plus the values around each formula   *)
(* boundary, pH every 0.05 from 6.45, bicarbonate absent or every 5 mmol/L *)
(* from 0.                                                                 *)

BoundaryWeights == {20, 99, 100, 101, 199, 200, 749, 751}
Weights == BoundaryWeights \cup {k * 250 : k \in 1..MaxWeightSteps}
PHs == {645 + k * 5 : k \in 0..MaxPHSteps}
Bicarbonates == {Undefined} \cup {Num(k * 50) : k \in 0..MaxBicSteps}
\* The two recognised insulin rate options and one the engine has no ceiling for.
InsulinRates == {5, 10, 7}

Inputs ==
    [weight : Weights, pH : PHs, bicarbonate : Bicarbonates,
     shockPresent : BOOLEAN, insulinRate : InsulinRates]

NoData == [weight |-> 0, pH |-> 0, bicarbonate |-> Undefined,
           shockPresent |-> FALSE, insulinRate |-> 0]

----------------------------------------------------------------------------
(* calculateSeverity.                                                      *)

\* typeof x is a string, so `typeof x !== undefined` holds for every x.
TypeofIsNotUndefined(x) == TRUE

checkSeverityLevelMutClosedUpper(levelConfig, d) ==
    \/ (d.pH <= levelConfig.pHRange.upper /\ d.pH >= levelConfig.pHRange.lower)
    \/ (TypeofIsNotUndefined(d.bicarbonate)
          /\ JsLess(d.bicarbonate, Num(levelConfig.bicarbonateBelow)))

checkSeverityLevelMutAnd(levelConfig, d) ==
    /\ (d.pH < levelConfig.pHRange.upper /\ d.pH >= levelConfig.pHRange.lower)
    /\ (TypeofIsNotUndefined(d.bicarbonate)
          /\ JsLess(d.bicarbonate, Num(levelConfig.bicarbonateBelow)))

checkSeverityLevel(levelConfig, d) ==
    \/ (d.pH < levelConfig.pHRange.upper /\ d.pH >= levelConfig.pHRange.lower)
    \/ (TypeofIsNotUndefined(d.bicarbonate)
          /\ JsLess(d.bicarbonate, Num(levelConfig.bicarbonateBelow)))

severityLevelsMutReversed == <<"mild", "moderate", "severe">>

severityLevels == <<"severe", "moderate", "mild">>

\* The for loop: the tiers tested, in order, up to and including the first match.
RECURSIVE severityLoop(_, _, _, _)
severityLoop(cfg, d, i, seen) ==
    IF i > Len(severityLevels) THEN [severity |-> NoSeverity, consulted |-> seen]
    ELSE IF checkSeverityLevel(cfg.severity[severityLevels[i]], d)
         THEN [severity |-> severityLevels[i],
               consulted |-> Append(seen, severityLevels[i])]
         ELSE severityLoop(cfg, d, i + 1, Append(seen, severityLevels[i]))

classificationError(d) ==
    [kind |-> "classification", pH |-> d.pH,
     bicarbonateText |-> TemplateText(d.bicarbonate)]

calculateSeverity(cfg, d) ==
    LET r == severityLoop(cfg, d, 1, <<>>)
    IN  [severity |-> r.severity,
         consulted |-> r.consulted,
         errors |-> IF r.severity = NoSeverity THEN <<classificationError(d)>> ELSE <<>>]

----------------------------------------------------------------------------
(* Number.prototype.toFixed(0) on a value held in tenths: half away from 0. *)

ToFixed0(x) == IF x < 0 THEN -((5 - x) \div 10) ELSE (x + 5) \div 10

----------------------------------------------------------------------------
(* The three weight x mL/kg boluses. Their working string is               *)
(* "[rate mL/kg] x [weight kg] = val mL": it ends with val.toFixed(0) and  *)
(* never carries the text "(exceeds limit)".                               *)

calculateBolusVolumeMutGeq(cfg, d) ==
    LET uncapped == d.weight * cfg.bolusMlsPerKg
        cap == cfg.caps.bolus
        isCapped == uncapped >= cap
        val == IF isCapped THEN cap ELSE uncapped
    IN  [val |-> val, mlsPerKg |-> cfg.bolusMlsPerKg, isCapped |-> isCapped,
         limit |-> cap,
         working |-> [weight |-> d.weight, result |-> ToFixed0(val), exceedsLimit |-> FALSE]]

calculateBolusVolumeMutNoCap(cfg, d) ==
    LET uncapped == d.weight * cfg.bolusMlsPerKg
        cap == cfg.caps.bolus
        isCapped == uncapped > cap
        val == uncapped
    IN  [val |-> val, mlsPerKg |-> cfg.bolusMlsPerKg, isCapped |-> isCapped,
         limit |-> cap,
         working |-> [weight |-> d.weight, result |-> ToFixed0(val), exceedsLimit |-> FALSE]]

calculateBolusVolume(cfg, d) ==
    LET uncapped == d.weight * cfg.bolusMlsPerKg
        cap == cfg.caps.bolus
        isCapped == uncapped > cap
        val == IF isCapped THEN cap ELSE uncapped
    IN  [val |-> val, mlsPerKg |-> cfg.bolusMlsPerKg, isCapped |-> isCapped,
         limit |-> cap,
         working |-> [weight |-> d.weight, result |-> ToFixed0(val), exceedsLimit |-> FALSE]]

calculateGlucoseBolusVolume(cfg, d) ==
    LET uncapped == d.weight * cfg.glucoseBolusMlsPerKg
        cap == cfg.caps.glucoseBolus
        isCapped == uncapped > cap
        val == IF isCapped THEN cap ELSE uncapped
    IN  [val |-> val, mlsPerKg |-> cfg.glucoseBolusMlsPerKg, isCapped |-> isCapped,
         limit |-> cap,
         working |-> [weight |-> d.weight, result |-> ToFixed0(val), exceedsLimit |-> FALSE]]

calculateHhsBolusVolume(cfg, d) ==
    LET uncapped == d.weight * cfg.hhsBolusMlsPerKg
        cap == cfg.caps.hhsBolus
        isCapped == uncapped > cap
        val == IF isCapped THEN cap ELSE uncapped
    IN  [val |-> val, mlsPerKg |-> cfg.hhsBolusMlsPerKg, isCapped |-> isCapped,
         limit |-> cap,
         working |-> [weight |-> d.weight, result |-> ToFixed0(val), exceedsLimit |-> FALSE]]

----------------------------------------------------------------------------
(* calculateDeficit: percentage, volume, volumeLessBolus, rate.            *)

\* severityMap.hasOwnProperty(severity): false is looked up as the key "false".
calculatePercentage(cfg, severityVal, d) ==
    LET known == severityVal \in {"severe", "moderate", "mild"}
        val == IF known THEN Num(cfg.severity[severityVal].deficitPercentage) ELSE JsFalse
    IN  [val |-> val,
         working |-> [bicarbonateText |->
                         IF d.bicarbonate # Undefined
                         THEN [shown |-> "digits", n |-> d.bicarbonate.n]
                         ELSE [shown |-> "not provided", n |-> 0],
                      result |-> TemplateText(val)],
         errors |-> IF known THEN <<>>
                    ELSE <<[kind |-> "deficitPercentage", severity |-> severityVal]>>]

\* capsMap = {5: caps.deficit5, 10: caps.deficit10}; property keys are strings.
\* Any numeric percentage is taken to have a ceiling.
capsMapHasOwnPropertyMutAnyNumber(key) == IsNumber(key)

capsMapHasOwnProperty(key) == IsNumber(key) /\ key.n \in {5, 10}

capsMapGetMutSwapped(cfg, key) ==
    IF key.n = 5 THEN cfg.caps.deficit10 ELSE cfg.caps.deficit5

capsMapGet(cfg, key) ==
    IF key.n = 5 THEN cfg.caps.deficit5 ELSE cfg.caps.deficit10

\* The ceiling test written with >= : 0 >= false holds, so val becomes false.
deficitCalculateVolumeMutGeq(cfg, percentage, d) ==
    LET uncapped == ToNumber(percentage.val) * d.weight * 10
        has == capsMapHasOwnProperty(percentage.val)
        capped == IF has THEN Num(capsMapGet(cfg, percentage.val)) ELSE JsFalse
        isCapped == ~IsNaN(capped) /\ uncapped >= ToNumber(capped)
        val == IF isCapped THEN capped ELSE Num(uncapped)
    IN  [val |-> val,
         limit |-> IF has THEN [cap |-> capsMapGet(cfg, percentage.val),
                                percentage |-> percentage.val.n]
                   ELSE [cap |-> 0, percentage |-> 0],
         hasLimit |-> has,
         working |-> [result |-> ToFixed0(uncapped), exceedsLimit |-> isCapped],
         isCapped |-> isCapped,
         errors |-> IF has THEN <<>>
                    ELSE <<[kind |-> "deficitVolumeCap", percentage |-> TemplateText(percentage.val)],
                           [kind |-> "deficitVolumeLimit", percentage |-> TemplateText(percentage.val)]>>]

deficitCalculateVolume(cfg, percentage, d) ==
    LET uncapped == ToNumber(percentage.val) * d.weight * 10
        has == capsMapHasOwnProperty(percentage.val)
        capped == IF has THEN Num(capsMapGet(cfg, percentage.val)) ELSE JsFalse
        isCapped == JsGreater(Num(uncapped), capped)
        val == IF isCapped THEN capped ELSE Num(uncapped)
    IN  [val |-> val,
         limit |-> IF has THEN [cap |-> capsMapGet(cfg, percentage.val),
                                percentage |-> percentage.val.n]
                   ELSE [cap |-> 0, percentage |-> 0],
         hasLimit |-> has,
         working |-> [result |-> ToFixed0(uncapped), exceedsLimit |-> isCapped],
         isCapped |-> isCapped,
         errors |-> IF has THEN <<>>
                    ELSE <<[kind |-> "deficitVolumeCap", percentage |-> TemplateText(percentage.val)],
                           [kind |-> "deficitVolumeLimit", percentage |-> TemplateText(percentage.val)]>>]

\* The bolus recomputed from the weight instead of read from the bolusVolume node.
calculateVolumeLessBolusMutRecompute(volume, bolusVolume, d) ==
    LET bolusToSubtract == IF d.shockPresent THEN 0 ELSE d.weight * bolusVolume.mlsPerKg
        val == ToNumber(volume.val) - bolusToSubtract
    IN  [bolusToSubtract |-> bolusToSubtract,
         val |-> val,
         throws |-> ~IsNumber(volume.val),
         working |-> [volume |-> ToFixed0(ToNumber(volume.val)),
                      bolus |-> ToFixed0(bolusToSubtract),
                      result |-> ToFixed0(val)]]

\* The operands of the subtraction exchanged.
calculateVolumeLessBolusMutSwapped(volume, bolusVolume, d) ==
    LET bolusToSubtract == IF d.shockPresent THEN 0 ELSE bolusVolume.val
        val == bolusToSubtract - ToNumber(volume.val)
    IN  [bolusToSubtract |-> bolusToSubtract,
         val |-> val,
         throws |-> ~IsNumber(volume.val),
         working |-> [volume |-> ToFixed0(ToNumber(volume.val)),
                      bolus |-> ToFixed0(bolusToSubtract),
                      result |-> ToFixed0(val)]]

\* volume.val.toFixed(0) is a TypeError when volume.val is false.
calculateVolumeLessBolus(volume, bolusVolume, d) ==
    LET bolusToSubtract == IF d.shockPresent THEN 0 ELSE bolusVolume.val
        val == ToNumber(volume.val) - bolusToSubtract
    IN  [bolusToSubtract |-> bolusToSubtract,
         val |-> val,
         throws |-> ~IsNumber(volume.val),
         working |-> [volume |-> ToFixed0(ToNumber(volume.val)),
                      bolus |-> ToFixed0(bolusToSubtract),
                      result |-> ToFixed0(val)]]

\* Fluid rates are numerators over this denominator (tenths of mL, 24 h, duration).
RateDen(cfg) == 10 * 24 * cfg.deficitReplacementDuration

deficitCalculateRate(cfg, volumeLessBolus) ==
    [val |-> volumeLessBolus.val * 24]

\* The deficit volume's errors registered before the percentage's.
calculateDeficitMutVolumeErrorsFirst(cfg, severityVal, bolusVolume, d) ==
    LET percentage == calculatePercentage(cfg, severityVal, d)
        volume == deficitCalculateVolume(cfg, percentage, d)
        volumeLessBolus == calculateVolumeLessBolus(volume, bolusVolume, d)
    IN  [percentage |-> [val |-> percentage.val, working |-> percentage.working],
         volume |-> [val |-> volume.val, limit |-> volume.limit, hasLimit |-> volume.hasLimit,
                     working |-> volume.working, isCapped |-> volume.isCapped],
         volumeLessBolus |-> [bolusToSubtract |-> volumeLessBolus.bolusToSubtract,
                              val |-> volumeLessBolus.val,
                              working |-> volumeLessBolus.working],
         rate |-> deficitCalculateRate(cfg, volumeLessBolus),
         throws |-> volumeLessBolus.throws,
         errors |-> volume.errors \o percentage.errors]

calculateDeficit(cfg, severityVal, bolusVolume, d) ==
    LET percentage == calculatePercentage(cfg, severityVal, d)
        volume == deficitCalculateVolume(cfg, percentage, d)
        volumeLessBolus == calculateVolumeLessBolus(volume, bolusVolume, d)
    IN  [percentage |-> [val |-> percentage.val, working |-> percentage.working],
         volume |-> [val |-> volume.val, limit |-> volume.limit, hasLimit |-> volume.hasLimit,
                     working |-> volume.working, isCapped |-> volume.isCapped],
         volumeLessBolus |-> [bolusToSubtract |-> volumeLessBolus.bolusToSubtract,
                              val |-> volumeLessBolus.val,
                              working |-> volumeLessBolus.working],
         rate |-> deficitCalculateRate(cfg, volumeLessBolus),
         throws |-> volumeLessBolus.throws,
         errors |-> percentage.errors \o volume.errors]

----------------------------------------------------------------------------
(* calculateMaintenance.                                                   *)

calculateUncappedMutSlope(d) ==
    IF d.weight < 100 THEN d.weight * 100
    ELSE IF d.weight < 200 THEN (d.weight - 100) * 50 + 10000
    ELSE (d.weight - 200) * 50 + 15000

calculateUncapped(d) ==
    IF d.weight < 100 THEN d.weight * 100
    ELSE IF d.weight < 200 THEN (d.weight - 100) * 50 + 10000
    ELSE (d.weight - 200) * 20 + 15000

\* The returned node carries no isCapped property.
maintenanceCalculateVolume(cfg, d) ==
    LET cap == cfg.caps.maintenance
        uncapped == calculateUncapped(d)
        isCapped == uncapped > cap
        val == IF isCapped THEN cap ELSE uncapped
    IN  [val |-> val,
         formula |-> IF d.weight < 100 THEN "lt10" ELSE IF d.weight < 200 THEN "lt20" ELSE "ge20",
         limit |-> cap,
         working |-> [result |-> ToFixed0(uncapped), exceedsLimit |-> isCapped]]

maintenanceCalculateRate(cfg, volume) ==
    [val |-> volume.val * cfg.deficitReplacementDuration]

calculateMaintenance(cfg, d) ==
    LET volume == maintenanceCalculateVolume(cfg, d)
    IN  [volume |-> volume, rate |-> maintenanceCalculateRate(cfg, volume)]

\* The deficit rate recomputed from the deficit volume, the bolus not subtracted.
calculateStartingFluidRateMutRecompute(deficit, maintenance) ==
    [val |-> ToNumber(deficit.volume.val) * 24 + maintenance.rate.val]

calculateStartingFluidRate(deficit, maintenance) ==
    [val |-> deficit.rate.val + maintenance.rate.val]

----------------------------------------------------------------------------
(* calculateInsulinRate.                                                   *)

\* insulinCapsMap = {0.05: caps.insulin005, 0.1: caps.insulin01}.
insulinCapsMapHasOwnProperty(rate) == rate \in {5, 10}

insulinCapsMapGetMutSwapped(cfg, rate) ==
    IF rate = 5 THEN cfg.caps.insulin01 ELSE cfg.caps.insulin005

insulinCapsMapGet(cfg, rate) ==
    IF rate = 5 THEN cfg.caps.insulin005 ELSE cfg.caps.insulin01

\* val.toFixed(2) is a TypeError when val is false.
calculateInsulinRate(cfg, d) ==
    LET uncapped == d.insulinRate * d.weight
        has == insulinCapsMapHasOwnProperty(d.insulinRate)
        capped == IF has THEN Num(insulinCapsMapGet(cfg, d.insulinRate)) ELSE JsFalse
        isCapped == JsGreater(Num(uncapped), capped)
        val == IF isCapped THEN capped ELSE Num(uncapped)
    IN  [val |-> val,
         isCapped |-> isCapped,
         limit |-> TemplateText(capped),
         throws |-> ~IsNumber(val),
         errors |-> IF has THEN <<>>
                    ELSE <<[kind |-> "insulinRateCap", insulinRate |-> d.insulinRate]>>]

----------------------------------------------------------------------------
(* calculateVariables: the whole pass. An exception thrown by a node       *)
(* leaves the function before the return statement, so nothing (neither    *)
(* tree nor error list) is returned.                                       *)

NoResult == [thrownBy |-> "none"]

\* A list that outlives the call: it still holds the remembered call's errors.
InitialErrorsMutShared == remembered.errors

\* const errors = [] : every call starts with its own empty list.
InitialErrors == <<>>

calculateVariables(cfg, d) ==
    LET sev == calculateSeverity(cfg, d)
        bolusVolume == calculateBolusVolume(cfg, d)
        deficit == calculateDeficit(cfg, sev.severity, bolusVolume, d)
        maintenance == calculateMaintenance(cfg, d)
        startingFluidRate == calculateStartingFluidRate(deficit, maintenance)
        insulinRate == calculateInsulinRate(cfg, d)
    IN  IF deficit.throws
        THEN [outcome |-> "threw", severity |-> sev.severity,
              consulted |-> sev.consulted, errors |-> <<>>,
              tree |-> [thrownBy |-> "calculateVolumeLessBolus"]]
        ELSE IF insulinRate.throws
        THEN [outcome |-> "threw", severity |-> sev.severity,
              consulted |-> sev.consulted, errors |-> <<>>,
              tree |-> [thrownBy |-> "calculateInsulinRate"]]
        ELSE [outcome |-> "returned", severity |-> sev.severity,
              consulted |-> sev.consulted,
              errors |-> InitialErrors \o sev.errors \o deficit.errors \o insulinRate.errors,
              tree |-> [severity |-> sev.severity,
                        bolusVolume |-> bolusVolume,
                        deficit |-> [percentage |-> deficit.percentage,
                                     volume |-> deficit.volume,
                                     volumeLessBolus |-> deficit.volumeLessBolus,
                                     rate |-> deficit.rate],
                        maintenance |-> maintenance,
                        startingFluidRate |-> startingFluidRate,
                        insulinRate |-> [val |-> insulinRate.val,
                                         isCapped |-> insulinRate.isCapped,
                                         limit |-> insulinRate.limit],
                        glucoseBolusVolume |-> calculateGlucoseBolusVolume(cfg, d),
                        hhsBolusVolume |-> calculateHhsBolusVolume(cfg, d)]]

----------------------------------------------------------------------------
(* The state machine: a configuration is loaded once; every call evaluates *)
(* one input against it with its own error list, and its locals are gone   *)
(* once the caller has read the outcome.                                   *)

NoMemory ==
    [data |-> NoData, outcome |-> "none", result |-> NoResult, errors |-> <<>>,
     interleaved |-> FALSE]

NoResponse == [status |-> 0, body |-> [sent |-> FALSE]]
NoAuditID == 0
NoImdDecile == "pending"
PassCheck == [pass |-> TRUE, error |-> "undefined"]
Procs == 1..MaxProcs
NoRacers == [p \in Procs |-> [pc |-> "idle", auditID |-> NoAuditID]]
NoRow ==
    [auditID |-> NoAuditID, bicarbonate |-> Null, patientHash |-> Null,
     calculations |-> [errors |-> <<>>]]
NoUpdate ==
    [pc |-> "idle", data |-> [auditID |-> NoAuditID, patientHash |-> Undefined, ip |-> 0],
     queried |-> FALSE, check |-> NoRow, status |-> 0]

Init ==
    /\ config \in Configs
    /\ data = NoData
    /\ pc = "idle"
    /\ result = NoResult
    /\ errors = <<>>
    /\ severity = NoSeverity
    /\ consulted = <<>>
    /\ response = NoResponse
    /\ imdDecile = NoImdDecile
    /\ auditID = NoAuditID
    /\ episodes = <<>>
    /\ remembered = NoMemory
    /\ body = NoData
    /\ check = PassCheck
    /\ sent = 0
    /\ openConnections = {}
    /\ auditIDUnique = FALSE
    /\ racers = NoRacers
    /\ update = NoUpdate
    /\ updates = <<>>

Calculate ==
    \E d \in Inputs :
        LET out == calculateVariables(config, d)
        IN  /\ pc = "idle"
            /\ data' = d
            /\ pc' = out.outcome
            /\ result' = out.tree
            /\ errors' = out.errors
            /\ severity' = out.severity
            /\ consulted' = out.consulted
            /\ UNCHANGED <<config, handlerVars, remembered>>

Finish ==
    /\ pc \in {"returned", "threw"}
    /\ pc' = "idle"
    /\ data' = NoData
    /\ result' = NoResult
    /\ errors' = <<>>
    /\ severity' = NoSeverity
    /\ consulted' = <<>>
    /\ UNCHANGED <<config, handlerVars, remembered>>

Next == Calculate \/ Finish

Spec == Init /\ [][Next]_vars

----------------------------------------------------------------------------
(* POST /calculate (index.js): the handler runs synchronously up to its    *)
(* first await, so the weight check, the calculation, the 400 answers and  *)
(* the preparation of the row are one step; the IMD lookup,                *)
(* generateAuditID and insertCalculateData are awaited one after the       *)
(* other. Of a row of tbl_data_v2 the model keeps the auditID, bicarbonate *)
(* and patientHash columns and the error list of the calculations column.  *)

\* Number.prototype.toFixed(2) of a value in thousandths, in hundredths.
ToFixed2(x) == (x + 5) \div 10

\* config.weightLimits, thousandths of a kg: per sex, the lower and upper limit
\* of each age in months that has an entry, and the hard maximum.
weightLimits ==
    [max |-> 75000,
     male   |-> [lower |-> (12 :> 7004 @@ 204 :> 40000),
                 upper |-> (12 :> 12996 @@ 204 :> 95000)],
     female |-> [lower |-> (12 :> 7000 @@ 204 :> 38000),
                 upper |-> (12 :> 13000 @@ 204 :> 90000)]]

FailCheck(error) == [pass |-> FALSE, error |-> error]

\* The upper limit is read without the cap at weightLimits.max.
checkWeightWithinLimitMutNoMax(d) ==
    IF d.weightLimitOverride THEN PassCheck
    ELSE LET ageInMonths == (d.patientAge * 12 + 50) \div 100
             table == weightLimits[d.patientSex]
         IN  IF ageInMonths \notin DOMAIN table.lower
             THEN FailCheck("TypeError")
             ELSE LET lower == table.lower[ageInMonths]
                      upper == table.upper[ageInMonths]
                  IN  IF \/ d.weight * 10 < ToFixed2(lower)
                         \/ d.weight * 10 > ToFixed2(upper)
                      THEN FailCheck("outOfRange")
                      ELSE PassCheck

\* patientAge is in hundredths of a year, weight in tenths of a kg. A limit that
\* is undefined makes .toFixed a TypeError, which the catch turns into a fail.
checkWeightWithinLimit(d) ==
    IF d.weightLimitOverride THEN PassCheck
    ELSE LET ageInMonths == (d.patientAge * 12 + 50) \div 100
             table == weightLimits[d.patientSex]
         IN  IF ageInMonths \notin DOMAIN table.lower
             THEN FailCheck("TypeError")
             ELSE LET lower == table.lower[ageInMonths]
                      upper == IF table.upper[ageInMonths] > weightLimits.max
                               THEN weightLimits.max
                               ELSE table.upper[ageInMonths]
                  IN  IF \/ d.weight * 10 < ToFixed2(lower)
                         \/ d.weight * 10 > ToFixed2(upper)
                      THEN FailCheck("outOfRange")
                      ELSE PassCheck

\* Validated request bodies: the engine's fields, the fields of the weight check,
\* the optional patientHash and whether a postcode was sent.
Requests ==
    [weight : {20, 100}, pH : {700, 735}, bicarbonate : {Undefined, Num(0)},
     shockPresent : {FALSE}, insulinRate : {5, 7},
     patientSex : {"female"}, patientAge : {100},
     weightLimitOverride : BOOLEAN, patientHash : {Undefined, Str(1)},
     patientPostcode : BOOLEAN]

\* Request bodies around the weight limits of both sexes and three ages, the
\* last of which has no entry in the table.
WeightRequests ==
    [weight : {20, 70, 100, 749, 751}, pH : {700}, bicarbonate : {Undefined},
     shockPresent : {FALSE}, insulinRate : {5},
     patientSex : {"male", "female"}, patientAge : {100, 1700, 1800},
     weightLimitOverride : BOOLEAN, patientHash : {Undefined},
     patientPostcode : {FALSE}]

AuditIDs == 1..MaxAuditIDs

StoredAuditIDs == {episodes[i].auditID : i \in DOMAIN episodes}

Respond(status, json) == [status |-> status, body |-> json]

\* x || null
OrNull(x) ==
    IF x = Undefined \/ x = Null \/ x = Num(0) \/ x = JsFalse THEN Null ELSE x

\* sha256(patientHash + salt); an absent patientHash is hashed as "undefined".
rehashPatientHash(h) == Str(h.n + 100)

\* The row the handler has prepared for insertCalculateData.
Row(d, id, calculationErrors) ==
    [auditID |-> id,
     bicarbonate |-> d.bicarbonate,
     patientHash |-> IF d.patientHash = Undefined THEN Null
                     ELSE rehashPatientHash(d.patientHash),
     calculations |-> [errors |-> calculationErrors]]

\* The 400 answer is sent and the handler goes on as if the list were empty.
PostCalculateOnMutNoReturn(reqs) ==
    \E d \in reqs :
        LET chk == checkWeightWithinLimit(d)
            out == calculateVariables(config, d)
        IN  /\ pc = "idle"
            /\ Len(episodes) < MaxEpisodes
            /\ body' = d
            /\ check' = chk
            /\ IF ~chk.pass
               THEN /\ response' = Respond(400, [errors |-> <<[msg |-> chk.error]>>])
                    /\ sent' = sent + 1
                    /\ pc' = "responded"
                    /\ data' = d
                    /\ UNCHANGED <<result, errors, severity, consulted>>
               ELSE /\ result' = out.tree
                    /\ errors' = out.errors
                    /\ severity' = out.severity
                    /\ consulted' = out.consulted
                    /\ IF out.outcome = "threw"
                       THEN /\ response' = Respond(500, [message |-> out.tree.thrownBy])
                            /\ sent' = sent + 1
                            /\ pc' = "responded"
                            /\ data' = d
                       ELSE IF out.errors # <<>>
                       THEN /\ response' = Respond(400, [errors |-> out.errors])
                            /\ sent' = sent + 1
                            /\ pc' = "lookup"
                            /\ data' = [d EXCEPT !.bicarbonate = OrNull(d.bicarbonate)]
                       ELSE /\ response' = NoResponse
                            /\ sent' = sent
                            /\ pc' = "lookup"
                            /\ data' = [d EXCEPT !.bicarbonate = OrNull(d.bicarbonate)]
            /\ UNCHANGED <<config, imdDecile, auditID, episodes, remembered,
                           openConnections, raceVars, updateVars>>

\* Lines 66-96 of the handler: body is req.body, data the object matchedData
\* built from it, which the handler then changes in place.
PostCalculateOn(reqs) ==
    \E d \in reqs :
        LET chk == checkWeightWithinLimit(d)
            out == calculateVariables(config, d)
        IN  /\ pc = "idle"
            /\ Len(episodes) < MaxEpisodes
            /\ body' = d
            /\ check' = chk
            /\ IF ~chk.pass
               THEN /\ response' = Respond(400, [errors |-> <<[msg |-> chk.error]>>])
                    /\ sent' = sent + 1
                    /\ pc' = "responded"
                    /\ data' = d
                    /\ UNCHANGED <<result, errors, severity, consulted>>
               ELSE /\ result' = out.tree
                    /\ errors' = out.errors
                    /\ severity' = out.severity
                    /\ consulted' = out.consulted
                    /\ IF out.outcome = "threw"
                       THEN /\ response' = Respond(500, [message |-> out.tree.thrownBy])
                            /\ sent' = sent + 1
                            /\ pc' = "responded"
                            /\ data' = d
                       ELSE IF out.errors # <<>>
                       THEN /\ response' = Respond(400, [errors |-> out.errors])
                            /\ sent' = sent + 1
                            /\ pc' = "responded"
                            /\ data' = d
                       ELSE /\ response' = NoResponse
                            /\ sent' = sent
                            /\ pc' = "lookup"
                            /\ data' = [d EXCEPT !.bicarbonate = OrNull(d.bicarbonate)]
            /\ UNCHANGED <<config, imdDecile, auditID, episodes, remembered,
                           openConnections, raceVars, updateVars>>

PostCalculate == PostCalculateOn(Requests)

\* data.patientPostcode ? await getImdDecile(data.patientPostcode) : null
GetImdDecile ==
    /\ pc = "lookup"
    /\ \/ /\ imdDecile' \in (IF data.patientPostcode THEN {"decile", "null"} ELSE {"null"})
          /\ pc' = "generate"
          /\ UNCHANGED <<response, sent>>
       \/ /\ data.patientPostcode
          /\ response' = Respond(500, [message |-> "getImdDecile"])
          /\ sent' = sent + 1
          /\ pc' = "responded"
          /\ UNCHANGED imdDecile
    /\ UNCHANGED <<config, data, body, check, result, errors, severity, consulted,
                   auditID, episodes, remembered, openConnections, raceVars, updateVars>>

\* createConnection has answered: the function holds an open connection.
Opened(open, fn) == open \cup {fn}

\* The finally block of generateAuditID, insertCalculateData, updateData and
\* insertSodiumOsmoData: connection is a const of the try block, so the name is
\* not in scope in finally; connection.end() is a ReferenceError that the inner
\* catch swallows, and the connection the try block opened stays open.
FinallyOutOfScope(open, fn) == open

\* The finally block of updateCheck, whose connection is declared before the try.
FinallyInScope(open, fn) == open \ {fn}

\* The IDs generateAuditID can return: those that had no row when it looked.
FreshAuditIDs == AuditIDs \ StoredAuditIDs

\* generateAuditID: random IDs are drawn until one has no row in tbl_data_v2.
\* createConnection fails, or a query fails, or an unused ID is found.
GenerateAuditID ==
    /\ pc = "generate"
    /\ \/ /\ response' = Respond(500, [message |-> "generateAuditID"])
          /\ sent' = sent + 1
          /\ pc' = "responded"
          /\ UNCHANGED <<auditID, openConnections>>
       \/ /\ response' = Respond(500, [message |-> "generateAuditID"])
          /\ sent' = sent + 1
          /\ pc' = "responded"
          /\ openConnections' = FinallyOutOfScope(Opened(openConnections, "generateAuditID"), "generateAuditID")
          /\ UNCHANGED auditID
       \/ /\ auditID' \in FreshAuditIDs
          /\ pc' = "insert"
          /\ openConnections' = FinallyOutOfScope(Opened(openConnections, "generateAuditID"), "generateAuditID")
          /\ UNCHANGED <<response, sent>>
    /\ UNCHANGED <<config, data, body, check, result, errors, severity, consulted,
                   imdDecile, episodes, remembered, raceVars, updateVars>>

\* INSERT INTO tbl_data_v2: refused when auditID is a unique key of the table and
\* a row has it already.
InsertAccepted(rows, row) ==
    ~(auditIDUnique /\ \E i \in DOMAIN rows : rows[i].auditID = row.auditID)

\* The failed insert does not throw: the handler goes on to answer.
InsertCalculateDataMutSwallowsError ==
    /\ pc = "insert"
    /\ \/ /\ response' = Respond(500, [message |-> "insertCalculateData"])
          /\ sent' = sent + 1
          /\ pc' = "responded"
          /\ UNCHANGED <<episodes, openConnections>>
       \/ /\ pc' = "inserted"
          /\ openConnections' = FinallyOutOfScope(Opened(openConnections, "insertCalculateData"), "insertCalculateData")
          /\ UNCHANGED <<episodes, response, sent>>
       \/ /\ InsertAccepted(episodes, Row(data, auditID, errors))
          /\ episodes' = Append(episodes, Row(data, auditID, errors))
          /\ pc' = "inserted"
          /\ openConnections' = FinallyOutOfScope(Opened(openConnections, "insertCalculateData"), "insertCalculateData")
          /\ UNCHANGED <<response, sent>>
    /\ UNCHANGED <<config, data, body, check, result, errors, severity, consulted,
                   imdDecile, auditID, remembered, raceVars, updateVars>>

\* insertCalculateData: createConnection fails, or the statement fails or affects
\* no row, or the row is inserted.
InsertCalculateData ==
    /\ pc = "insert"
    /\ \/ /\ response' = Respond(500, [message |-> "insertCalculateData"])
          /\ sent' = sent + 1
          /\ pc' = "responded"
          /\ UNCHANGED <<episodes, openConnections>>
       \/ /\ response' = Respond(500, [message |-> "insertCalculateData"])
          /\ sent' = sent + 1
          /\ pc' = "responded"
          /\ openConnections' = FinallyOutOfScope(Opened(openConnections, "insertCalculateData"), "insertCalculateData")
          /\ UNCHANGED episodes
       \/ /\ InsertAccepted(episodes, Row(data, auditID, errors))
          /\ episodes' = Append(episodes, Row(data, auditID, errors))
          /\ pc' = "inserted"
          /\ openConnections' = FinallyOutOfScope(Opened(openConnections, "insertCalculateData"), "insertCalculateData")
          /\ UNCHANGED <<response, sent>>
    /\ UNCHANGED <<config, data, body, check, result, errors, severity, consulted,
                   imdDecile, auditID, remembered, raceVars, updateVars>>

\* res.json({ auditID, calculations })
ResJson ==
    /\ pc = "inserted"
    /\ response' = Respond(200, [auditID |-> auditID,
                                 calculations |-> [tree |-> result, errors |-> errors]])
    /\ sent' = sent + 1
    /\ pc' = "responded"
    /\ UNCHANGED <<config, data, body, check, result, errors, severity, consulted,
                   imdDecile, auditID, episodes, remembered, openConnections,
                   raceVars, updateVars>>

\* The handler has returned: its locals are gone; the table stays, and so do the
\* connections nothing closed.
Complete ==
    /\ pc = "responded"
    /\ pc' = "idle"
    /\ data' = NoData
    /\ body' = NoData
    /\ check' = PassCheck
    /\ result' = NoResult
    /\ errors' = <<>>
    /\ severity' = NoSeverity
    /\ consulted' = <<>>
    /\ response' = NoResponse
    /\ sent' = 0
    /\ imdDecile' = NoImdDecile
    /\ auditID' = NoAuditID
    /\ UNCHANGED <<config, episodes, remembered, openConnections, raceVars, updateVars>>

HandlerInit ==
    /\ Init
    /\ config = ProtocolConfig

HandlerNext ==
    \/ PostCalculate
    \/ GetImdDecile
    \/ GenerateAuditID
    \/ InsertCalculateData
    \/ ResJson
    \/ Complete

HandlerSpec == HandlerInit /\ [][HandlerNext]_vars

\* The same handler on requests around the weight limits.
PostCalculateWeights == PostCalculateOn(WeightRequests)

WeightCheckNext ==
    \/ PostCalculateWeights
    \/ GetImdDecile
    \/ GenerateAuditID
    \/ InsertCalculateData
    \/ ResJson
    \/ Complete

WeightCheckSpec == HandlerInit /\ [][WeightCheckNext]_vars

----------------------------------------------------------------------------
(* calculateVariables called again and again on one configuration. The     *)
(* history variable remembered keeps the input and the outcome of one      *)
(* earlier call, and whether a call on another input has been made since.  *)

RepeatInputs ==
    [weight : {100, 751}, pH : {700, 735}, bicarbonate : {Undefined},
     shockPresent : BOOLEAN, insulinRate : {5, 7}]

Evaluate ==
    \E d \in RepeatInputs :
        LET out == calculateVariables(config, d)
            this == [data |-> d, outcome |-> out.outcome, result |-> out.tree,
                     errors |-> out.errors, interleaved |-> FALSE]
        IN  /\ pc = "idle"
            /\ data' = d
            /\ pc' = out.outcome
            /\ result' = out.tree
            /\ errors' = out.errors
            /\ severity' = out.severity
            /\ consulted' = out.consulted
            /\ remembered' \in
                   IF remembered = NoMemory THEN {NoMemory, this}
                   ELSE IF d # remembered.data
                        THEN {[remembered EXCEPT !.interleaved = TRUE]}
                        ELSE {remembered}
            /\ UNCHANGED <<config, handlerVars>>

RepeatNext == Evaluate \/ Finish

RepeatSpec == Init /\ [][RepeatNext]_vars

----------------------------------------------------------------------------
(* Several /calculate requests in flight at once: each awaits              *)
(* generateAuditID and then insertCalculateData, and the event loop may    *)
(* run another request's step between the two. The schema of tbl_data_v2   *)
(* is not part of the repository: auditIDUnique tells whether the table    *)
(* has a unique key on auditID, and both schemas are explored.             *)

\* The columns of a request that passed the synchronous part of the handler.
RaceData == [bicarbonate |-> Null, patientHash |-> Undefined]

\* A request arrives and runs up to its await of generateAuditID.
RaceArrive(p) ==
    /\ racers[p].pc = "idle"
    /\ Len(episodes) < MaxEpisodes
    /\ racers' = [racers EXCEPT ![p] = [pc |-> "generate", auditID |-> NoAuditID]]
    /\ UNCHANGED <<config, engineVars, response, imdDecile, auditID, episodes,
                   remembered, body, check, sent, openConnections, auditIDUnique,
                   updateVars>>

RaceGenerateAuditID(p) ==
    /\ racers[p].pc = "generate"
    /\ \/ /\ racers' = [racers EXCEPT ![p] = [pc |-> "failed", auditID |-> NoAuditID]]
          /\ UNCHANGED openConnections
       \/ /\ \E id \in FreshAuditIDs :
                 racers' = [racers EXCEPT ![p] = [pc |-> "insert", auditID |-> id]]
          /\ openConnections' = FinallyOutOfScope(Opened(openConnections, "generateAuditID"), "generateAuditID")
    /\ UNCHANGED <<config, engineVars, response, imdDecile, auditID, episodes,
                   remembered, body, check, sent, auditIDUnique, updateVars>>

RaceInsertCalculateData(p) ==
    /\ racers[p].pc = "insert"
    /\ \/ /\ racers' = [racers EXCEPT ![p].pc = "failed"]
          /\ openConnections' = FinallyOutOfScope(Opened(openConnections, "insertCalculateData"), "insertCalculateData")
          /\ UNCHANGED episodes
       \/ /\ InsertAccepted(episodes, Row(RaceData, racers[p].auditID, <<>>))
          /\ episodes' = Append(episodes, Row(RaceData, racers[p].auditID, <<>>))
          /\ racers' = [racers EXCEPT ![p].pc = "inserted"]
          /\ openConnections' = FinallyOutOfScope(Opened(openConnections, "insertCalculateData"), "insertCalculateData")
    /\ UNCHANGED <<config, engineVars, response, imdDecile, auditID,
                   remembered, body, check, sent, auditIDUnique, updateVars>>

\* The request is answered, 200 after the insert and 500 after a failure.
RaceRespond(p) ==
    /\ racers[p].pc \in {"inserted", "failed"}
    /\ racers' = [racers EXCEPT ![p] = [pc |-> "idle", auditID |-> NoAuditID]]
    /\ UNCHANGED <<config, engineVars, response, imdDecile, auditID, episodes,
                   remembered, body, check, sent, openConnections, auditIDUnique,
                   updateVars>>

RaceInit ==
    /\ config = ProtocolConfig
    /\ data = NoData
    /\ pc = "idle"
    /\ result = NoResult
    /\ errors = <<>>
    /\ severity = NoSeverity
    /\ consulted = <<>>
    /\ response = NoResponse
    /\ imdDecile = NoImdDecile
    /\ auditID = NoAuditID
    /\ episodes = <<>>
    /\ remembered = NoMemory
    /\ body = NoData
    /\ check = PassCheck
    /\ sent = 0
    /\ openConnections = {}
    /\ auditIDUnique \in BOOLEAN
    /\ racers = NoRacers
    /\ update = NoUpdate
    /\ updates = <<>>

RaceNext ==
    \E p \in Procs :
        \/ RaceArrive(p)
        \/ RaceGenerateAuditID(p)
        \/ RaceInsertCalculateData(p)
        \/ RaceRespond(p)

RaceSpec == RaceInit /\ [][RaceNext]_vars

----------------------------------------------------------------------------
(* POST /update (index.js): updateCheck is awaited, the checks on what it  *)
(* returned run synchronously, updateData is awaited and the answer is     *)
(* sent. Of a row of tbl_update_v2 the model keeps the auditID,            *)
(* cerebralOedema and clientIP columns. The table tbl_data_v2 holds two    *)
(* episodes stored by earlier /calculate requests, one with a patientHash  *)
(* and one without.                                                        *)

StoredEpisodes ==
    << Row([bicarbonate |-> Null, patientHash |-> Str(1)], 1, <<>>),
       Row([bicarbonate |-> Null, patientHash |-> Undefined], 2, <<>>) >>

\* Validated bodies of /update with the address req.ip of their sender.
UpdateRequests ==
    [auditID : 1..(MaxAuditIDs + 1), patientHash : {Undefined, Str(1), Str(2)},
     ip : {7, 8}]

\* updateCheck: the rows of the audit ID are selected; no row is an Error, which
\* the catch throws again; otherwise the first row is returned.
updateCheck(rows, id) ==
    LET found == SelectSeq(rows, LAMBDA r : r.auditID = id)
    IN  IF Len(found) = 0
        THEN [threw |-> TRUE, value |-> NoRow]
        ELSE [threw |-> FALSE, value |-> found[1]]

\* Lines 140-182 of the handler. The connection or the query fails, or the
\* query is answered; an Error of updateCheck reaches the handler's catch.
UpdateCheck ==
    \E d \in UpdateRequests :
        LET out == updateCheck(episodes, d.auditID)
        IN  /\ update.pc = "idle"
            /\ Len(updates) < MaxUpdates
            /\ \/ update' = [pc |-> "responded", data |-> d, queried |-> FALSE,
                             check |-> NoRow, status |-> 500]
               \/ update' =
                     [pc |-> IF out.threw \/ out.value = NoRow
                                \/ out.value.patientHash = Null
                                \/ out.value.patientHash # rehashPatientHash(d.patientHash)
                             THEN "responded" ELSE "write",
                      data |-> d, queried |-> TRUE, check |-> out.value,
                      status |-> IF out.threw THEN 500
                                 ELSE IF out.value = NoRow THEN 404
                                 ELSE IF out.value.patientHash = Null THEN 406
                                 ELSE IF out.value.patientHash # rehashPatientHash(d.patientHash)
                                 THEN 401 ELSE 0]
            /\ openConnections' = FinallyInScope(Opened(openConnections, "updateCheck"), "updateCheck")
            /\ UNCHANGED <<config, engineVars, response, imdDecile, auditID, episodes,
                           remembered, body, check, sent, raceVars, updates>>

\* The row updateData(data, cerebralOedema, clientIP) inserts.
UpdateRow(d, cerebralOedema, clientIP) ==
    [auditID |-> d.auditID, cerebralOedema |-> cerebralOedema,
     clientIP |-> IF clientIP = Undefined THEN Null ELSE clientIP]

\* await updateData(data, clientIP): the address is bound to the parameter
\* cerebralOedema and the parameter clientIP is undefined. createConnection
\* fails; or the statement is refused (the driver may refuse an undefined bind
\* parameter) or affects no row; or the row is inserted with NULL for undefined.
UpdateData ==
    /\ update.pc = "write"
    /\ \/ /\ update' = [update EXCEPT !.pc = "responded", !.status = 500]
          /\ UNCHANGED <<updates, openConnections>>
       \/ /\ update' = [update EXCEPT !.pc = "responded", !.status = 500]
          /\ openConnections' = FinallyOutOfScope(Opened(openConnections, "updateData"), "updateData")
          /\ UNCHANGED updates
       \/ /\ updates' = Append(updates,
                               UpdateRow(update.data, Str(update.data.ip), Undefined))
          /\ update' = [update EXCEPT !.pc = "written"]
          /\ openConnections' = FinallyOutOfScope(Opened(openConnections, "updateData"), "updateData")
    /\ UNCHANGED <<config, engineVars, response, imdDecile, auditID, episodes,
                   remembered, body, check, sent, raceVars>>

\* res.json("Audit data update complete")
UpdateResJson ==
    /\ update.pc = "written"
    /\ update' = [update EXCEPT !.pc = "responded", !.status = 200]
    /\ UNCHANGED <<config, engineVars, response, imdDecile, auditID, episodes,
                   remembered, body, check, sent, openConnections, raceVars, updates>>

UpdateComplete ==
    /\ update.pc = "responded"
    /\ update' = NoUpdate
    /\ UNCHANGED <<config, engineVars, response, imdDecile, auditID, episodes,
                   remembered, body, check, sent, openConnections, raceVars, updates>>

UpdateInit ==
    /\ config = ProtocolConfig
    /\ data = NoData
    /\ pc = "idle"
    /\ result = NoResult
    /\ errors = <<>>
    /\ severity = NoSeverity
    /\ consulted = <<>>
    /\ response = NoResponse
    /\ imdDecile = NoImdDecile
    /\ auditID = NoAuditID
    /\ episodes = StoredEpisodes
    /\ remembered = NoMemory
    /\ body = NoData
    /\ check = PassCheck
    /\ sent = 0
    /\ openConnections = {}
    /\ auditIDUnique = FALSE
    /\ racers = NoRacers
    /\ update = NoUpdate
    /\ updates = <<>>

UpdateNext ==
    \/ UpdateCheck
    \/ UpdateData
    \/ UpdateResJson
    \/ UpdateComplete

UpdateSpec == UpdateInit /\ [][UpdateNext]_vars

----------------------------------------------------------------------------
(* Vocabulary of the properties, stated on the input and the configuration *)
(* independently of the classifier's code.                                 *)

Tiers == {"severe", "moderate", "mild"}
Called == pc # "idle"
Returned == pc = "returned"

PHInRange(t) ==
    /\ config.severity[t].pHRange.lower <= data.pH
    /\ data.pH < config.severity[t].pHRange.upper

BicarbonatePresent == data.bicarbonate.t = "number"

BicarbonateBelow(t) ==
    BicarbonatePresent /\ data.bicarbonate.n < config.severity[t].bicarbonateBelow

TierMatches(t) == PHInRange(t) \/ BicarbonateBelow(t)

NoTierMatches == \A t \in Tiers : ~TierMatches(t)

DeficitCeiling(pct) ==
    IF pct = 5 THEN config.caps.deficit5 ELSE config.caps.deficit10

InsulinCeiling ==
    IF data.insulinRate = 5 THEN config.caps.insulin005 ELSE config.caps.insulin01

----------------------------------------------------------------------------
(* C1: whenever calculateVariables returns with an empty error list, every *)
(* capped quantity's val is at most its applicable ceiling: the three      *)
(* boluses, the deficit volume (ceiling of its percentage), the            *)
(* maintenance volume and the insulin rate (ceiling of the chosen option). *)
C1_ValsWithinCeilings ==
    (Returned /\ errors = <<>>) =>
        /\ result.bolusVolume.val <= config.caps.bolus
        /\ result.glucoseBolusVolume.val <= config.caps.glucoseBolus
        /\ result.hhsBolusVolume.val <= config.caps.hhsBolus
        /\ IsNumber(result.deficit.volume.val)
        /\ result.deficit.volume.val.n <= DeficitCeiling(result.deficit.percentage.val.n)
        /\ result.maintenance.volume.val <= config.caps.maintenance
        /\ IsNumber(result.insulinRate.val)
        /\ result.insulinRate.val.n <= InsulinCeiling

\* An error-free result in which the uncapped figures all exceed their ceilings.
C1_Witness ==
    /\ Returned /\ errors = <<>>
    /\ data.weight * config.bolusMlsPerKg > config.caps.bolus
    /\ data.weight * config.glucoseBolusMlsPerKg > config.caps.glucoseBolus
    /\ data.weight * config.hhsBolusMlsPerKg > config.caps.hhsBolus
    /\ result.deficit.percentage.val.n * data.weight * 10
           > DeficitCeiling(result.deficit.percentage.val.n)
    /\ calculateUncapped(data) > config.caps.maintenance
    /\ data.insulinRate * data.weight > InsulinCeiling

(* C2: the classifier tests the tiers in the order severe, moderate, mild  *)
(* and returns the first that matches: an input matching severe is severe  *)
(* even if a later tier matches too, and one matching moderate but not     *)
(* severe is moderate.                                                     *)
C2_FirstMatchingTierWins ==
    Called =>
        /\ Len(consulted) \in 1..3
        /\ consulted = SubSeq(<<"severe", "moderate", "mild">>, 1, Len(consulted))
        /\ TierMatches("severe") => severity = "severe"
        /\ (~TierMatches("severe") /\ TierMatches("moderate")) => severity = "moderate"
        /\ (~TierMatches("severe") /\ ~TierMatches("moderate") /\ TierMatches("mild"))
               => severity = "mild"

\* Severe is returned although moderate and mild match as well.
C2_Witness ==
    /\ Called
    /\ TierMatches("severe") /\ TierMatches("moderate") /\ TierMatches("mild")
    /\ severity = "severe"

(* C3: a tier matches iff pH is in its range lower <= pH < upper or        *)
(* bicarbonate is present and strictly below its threshold: for every tier *)
(* the loop tested, it was the one returned exactly when that holds; and   *)
(* with bicarbonate absent only a pH range can select a tier.              *)
C3_TierMatchIsRangeOrBicarbonate ==
    Called =>
        /\ \A i \in DOMAIN consulted :
               (severity = consulted[i]) <=> TierMatches(consulted[i])
        /\ (~BicarbonatePresent /\ \A t \in Tiers : ~PHInRange(t))
               => severity = NoSeverity

\* Bicarbonate alone selects a tier: pH lies outside every range.
C3_Witness ==
    /\ Called
    /\ \A t \in Tiers : ~PHInRange(t)
    /\ BicarbonatePresent
    /\ severity \in Tiers

(* C4 as stated: pH below the severe tier's lower bound, or bicarbonate    *)
(* below the severe threshold, gives severe with no later tier consulted.  *)
C4_Original ==
    (Called /\ (data.pH < config.severity.severe.pHRange.lower
                   \/ BicarbonateBelow("severe")))
        => (severity = "severe" /\ consulted = <<"severe">>)

(* C4 amended: pH inside the severe tier's range (lower <= pH < upper), or *)
(* bicarbonate present and below the severe threshold, gives severe, and   *)
(* the severe tier is the only one the classifier consults.                *)
C4_SevereRangeOrBicarbonateIsSevere ==
    (Called /\ (PHInRange("severe") \/ BicarbonateBelow("severe")))
        => (severity = "severe" /\ consulted = <<"severe">>)

\* Severe by bicarbonate alone, with a pH that a lower-priority tier's range holds.
C4_Witness ==
    /\ Called
    /\ BicarbonateBelow("severe") /\ ~PHInRange("severe")
    /\ PHInRange("mild")
    /\ severity = "severe" /\ consulted = <<"severe">>

(* C5: with bicarbonate absent, a pH equal to a tier's upper bound is not  *)
(* classified into that tier; with contiguous ranges the severe upper      *)
(* bound is moderate, the moderate upper bound is mild, and the mild upper *)
(* bound matches no tier.                                                  *)
C5_UpperBoundExcluded ==
    (Called /\ ~BicarbonatePresent) =>
        /\ \A t \in Tiers :
               data.pH = config.severity[t].pHRange.upper => severity # t
        /\ Contiguous(config) =>
               /\ data.pH = config.severity.severe.pHRange.upper => severity = "moderate"
               /\ data.pH = config.severity.moderate.pHRange.upper => severity = "mild"
               /\ data.pH = config.severity.mild.pHRange.upper => severity = NoSeverity

\* The mild tier's upper bound itself, bicarbonate absent: no tier.
C5_Witness ==
    /\ Called /\ ~BicarbonatePresent /\ Contiguous(config)
    /\ data.pH = config.severity.mild.pHRange.upper
    /\ severity = NoSeverity

ClassificationErrors ==
    {i \in DOMAIN errors : errors[i].kind = "classification"}

(* C6 as stated: whenever no tier matches, the engine returns severity     *)
(* undetermined (false) and the returned error list holds exactly one      *)
(* classification error.                                                   *)
C6_NoTierOneClassificationError ==
    (Called /\ NoTierMatches) =>
        /\ Returned
        /\ result.severity = NoSeverity
        /\ Cardinality(ClassificationErrors) = 1

\* What remains of C6 when the insulin rate option is a recognised one.
C6_HoldsWithRecognisedInsulinOption ==
    (Called /\ NoTierMatches /\ data.insulinRate \in {5, 10}) =>
        /\ Returned
        /\ result.severity = NoSeverity
        /\ Cardinality(ClassificationErrors) = 1

(* C7 as stated, on the inputs with a recognised insulin rate option: when *)
(* no tier matches and bicarbonate is absent, the classifier does not      *)
(* throw, undetermined is returned, and the classification error it        *)
(* registers describes the bicarbonate as "not provided".                  *)
C7_AbsentBicarbonateNotProvided ==
    (Called /\ NoTierMatches /\ ~BicarbonatePresent /\ data.insulinRate \in {5, 10}) =>
        /\ Returned
        /\ result.severity = NoSeverity
        /\ \E i \in DOMAIN errors :
               /\ errors[i].kind = "classification"
               /\ errors[i].bicarbonateText.shown = "not provided"

(* C8: each of bolusVolume, glucoseBolusVolume and hhsBolusVolume, with    *)
(* its own mL/kg rate and ceiling: weight x rate above the ceiling gives   *)
(* isCapped = true and val = the ceiling; otherwise, weight x rate equal   *)
(* to the ceiling included, isCapped = false and val = weight x rate.      *)
CappedPrimitive(node, rate, ceiling) ==
    IF data.weight * rate > ceiling
    THEN node.isCapped = TRUE /\ node.val = ceiling
    ELSE node.isCapped = FALSE /\ node.val = data.weight * rate

C8_BolusCappedPrimitive ==
    Returned =>
        /\ result.bolusVolume.mlsPerKg = config.bolusMlsPerKg
        /\ CappedPrimitive(result.bolusVolume, config.bolusMlsPerKg, config.caps.bolus)
        /\ result.glucoseBolusVolume.mlsPerKg = config.glucoseBolusMlsPerKg
        /\ CappedPrimitive(result.glucoseBolusVolume, config.glucoseBolusMlsPerKg,
                           config.caps.glucoseBolus)
        /\ result.hhsBolusVolume.mlsPerKg = config.hhsBolusMlsPerKg
        /\ CappedPrimitive(result.hhsBolusVolume, config.hhsBolusMlsPerKg,
                           config.caps.hhsBolus)

\* One weight at which the bolus sits exactly on its ceiling, the HHS bolus is
\* over its ceiling and the glucose bolus is under its ceiling.
C8_Witness ==
    /\ Returned
    /\ data.weight * config.bolusMlsPerKg = config.caps.bolus
    /\ ~result.bolusVolume.isCapped
    /\ result.hhsBolusVolume.isCapped
    /\ result.hhsBolusVolume.val < data.weight * config.hhsBolusMlsPerKg
    /\ ~result.glucoseBolusVolume.isCapped
    /\ result.glucoseBolusVolume.val < config.caps.glucoseBolus

(* C9: bolusToSubtract is 0 whenever shockPresent is true; whenever it is  *)
(* false it is the val of the bolusVolume node of the same result (the     *)
(* capped figure); and volumeLessBolus.val = volume.val - bolusToSubtract. *)
C9_BolusToSubtract ==
    Returned =>
        /\ data.shockPresent => result.deficit.volumeLessBolus.bolusToSubtract = 0
        /\ ~data.shockPresent =>
               result.deficit.volumeLessBolus.bolusToSubtract = result.bolusVolume.val
        /\ IsNumber(result.deficit.volume.val)
        /\ result.deficit.volumeLessBolus.val =
               result.deficit.volume.val.n - result.deficit.volumeLessBolus.bolusToSubtract

\* No shock and a capped bolus: the figure subtracted is the ceiling, not weight x rate.
C9_Witness ==
    /\ Returned /\ ~data.shockPresent
    /\ result.bolusVolume.isCapped
    /\ result.deficit.volumeLessBolus.bolusToSubtract = config.caps.bolus
    /\ result.deficit.volumeLessBolus.bolusToSubtract < data.weight * config.bolusMlsPerKg

(* C10 as stated, on the inputs with a recognised insulin rate option:     *)
(* deficit.volume has uncapped = percentage x weight x 10, the ceiling     *)
(* selected by the percentage value (5: caps.deficit5, 10: caps.deficit10) *)
(* and val = ceiling if uncapped > ceiling else uncapped; a percentage     *)
(* with no ceiling registers an error, picks no ceiling, and the pass      *)
(* still completes and returns.                                            *)
DeficitPercentageOfCall ==
    IF severity \in Tiers THEN Num(config.severity[severity].deficitPercentage) ELSE JsFalse

C10_DeficitVolumeCeilingOrError ==
    (Called /\ data.insulinRate \in {5, 10}) =>
        /\ Returned
        /\ result.deficit.percentage.val = DeficitPercentageOfCall
        /\ LET pct == result.deficit.percentage.val
               uncapped == ToNumber(pct) * data.weight * 10
           IN  IF IsNumber(pct) /\ pct.n \in {5, 10}
               THEN /\ result.deficit.volume.val =
                          Num(IF uncapped > DeficitCeiling(pct.n)
                              THEN DeficitCeiling(pct.n) ELSE uncapped)
                    /\ \A i \in DOMAIN errors : errors[i].kind # "deficitVolumeCap"
               ELSE /\ \E i \in DOMAIN errors : errors[i].kind = "deficitVolumeCap"
                    /\ ~result.deficit.volume.isCapped
                    /\ result.deficit.volume.val = Num(uncapped)

ErrorKinds == {errors[i].kind : i \in DOMAIN errors}
Threw == pc = "threw"

(* C11: when severity is undetermined the deficit percentage stage         *)
(* registers an error and yields the placeholder false (0 in arithmetic),  *)
(* and deficit.volume, deficit.volumeLessBolus, deficit.rate and           *)
(* startingFluidRate are still computed from it: none of these stages      *)
(* throws, and a returned tree holds all four, propagated from the         *)
(* placeholder.                                                            *)
C11_UndeterminedSeverityPropagates ==
    (Called /\ severity = NoSeverity) =>
        /\ Threw => result.thrownBy # "calculateVolumeLessBolus"
        /\ Returned =>
               /\ "deficitPercentage" \in ErrorKinds
               /\ result.deficit.percentage.val = JsFalse
               /\ result.deficit.volume.val = Num(0)
               /\ result.deficit.volumeLessBolus.val =
                      0 - (IF data.shockPresent THEN 0 ELSE result.bolusVolume.val)
               /\ result.deficit.rate.val = result.deficit.volumeLessBolus.val * 24
               /\ result.startingFluidRate.val =
                      result.deficit.rate.val + result.maintenance.rate.val

\* Undetermined severity, no shock: the stages ran and the bolus went below zero.
C11_Witness ==
    /\ Returned /\ severity = NoSeverity /\ ~data.shockPresent
    /\ "deficitPercentage" \in ErrorKinds
    /\ result.deficit.percentage.val = JsFalse
    /\ result.deficit.volumeLessBolus.val < 0
    /\ result.startingFluidRate.val # result.maintenance.rate.val

DeficitStagesCompleted ==
    ~(Threw /\ result.thrownBy = "calculateVolumeLessBolus")

(* C12 as stated: an insulin rate option outside {0.05, 0.1} makes         *)
(* calculateInsulinRate register an error, and the pass still completes:   *)
(* calculateVariables returns the tree, with a placeholder insulinRate,    *)
(* and the error list.                                                     *)
C12_UnrecognisedInsulinOptionRegistersError ==
    (Called /\ data.insulinRate \notin {5, 10} /\ DeficitStagesCompleted) =>
        /\ Returned
        /\ "insulinRateCap" \in ErrorKinds
        /\ ~IsNumber(result.insulinRate.val)

(* C13: for an insulin option r in {0.05, 0.1} and any weight, the insulin *)
(* rate stage does not throw and registers no error, its ceiling is        *)
(* caps.insulin005 for 0.05 and caps.insulin01 for 0.1, isCapped is true   *)
(* iff r x weight exceeds that ceiling, and val is the ceiling if isCapped *)
(* and r x weight otherwise.                                               *)
C13_InsulinRateCappedPrimitive ==
    (Called /\ data.insulinRate \in {5, 10}) =>
        /\ Threw => result.thrownBy # "calculateInsulinRate"
        /\ Returned =>
               LET uncapped == data.insulinRate * data.weight
               IN  /\ result.insulinRate.isCapped = (uncapped > InsulinCeiling)
                   /\ result.insulinRate.val =
                          Num(IF uncapped > InsulinCeiling THEN InsulinCeiling ELSE uncapped)
                   /\ result.insulinRate.limit = [shown |-> "digits", n |-> InsulinCeiling]
                   /\ "insulinRateCap" \notin ErrorKinds

\* Option 0.1 at a weight whose rate is over the 0.05 ceiling but within the 0.1 one.
C13_Witness ==
    /\ Returned /\ data.insulinRate = 10
    /\ data.insulinRate * data.weight > config.caps.insulin005
    /\ data.insulinRate * data.weight <= config.caps.insulin01
    /\ ~result.insulinRate.isCapped
    /\ result.insulinRate.val = Num(data.insulinRate * data.weight)

(* C14: maintenance.volume's uncapped figure is weight x 100 below 10 kg,  *)
(* 1000 + (weight - 10) x 50 from 10 kg to below 20 kg, and                *)
(* 1500 + (weight - 20) x 20 from 20 kg (1000 mL at 10 kg, 1500 mL at      *)
(* 20 kg); val is that figure capped at caps.maintenance;                  *)
(* maintenance.rate.val = maintenance.volume.val / 24; and no error of the *)
(* returned list comes from the maintenance calculator.                    *)
MaintenanceFormula(w) ==
    IF w < 100 THEN w * 100
    ELSE IF w < 200 THEN 10000 + (w - 100) * 50
    ELSE 15000 + (w - 200) * 20

C14_MaintenanceVolumeAndRate ==
    Returned =>
        LET uncapped == MaintenanceFormula(data.weight)
            volume == result.maintenance.volume
        IN  /\ data.weight = 100 => uncapped = 10000
            /\ data.weight = 200 => uncapped = 15000
            /\ volume.working.result = ToFixed0(uncapped)
            /\ volume.working.exceedsLimit = (uncapped > config.caps.maintenance)
            /\ volume.limit = config.caps.maintenance
            /\ volume.val = (IF uncapped > config.caps.maintenance
                             THEN config.caps.maintenance ELSE uncapped)
            \* rate.val / RateDen mL/hour = (volume.val / 10 mL) / 24
            /\ result.maintenance.rate.val * 10 * 24 = volume.val * RateDen(config)
            /\ ErrorKinds \subseteq {"classification", "deficitPercentage", "deficitVolumeCap",
                                     "deficitVolumeLimit", "insulinRateCap"}
            /\ (severity \in Tiers /\ config.severity[severity].deficitPercentage \in {5, 10}
                  /\ data.insulinRate \in {5, 10}) => errors = <<>>

\* A weight in the last branch, under the ceiling: 25 kg gives 1600 mL, 66.67 mL/hour.
C14_Witness ==
    /\ Returned /\ data.weight > 200
    /\ result.maintenance.volume.val = 15000 + (data.weight - 200) * 20
    /\ result.maintenance.volume.val < config.caps.maintenance
    /\ errors = <<>>

(* C15: startingFluidRate.val is exactly deficit.rate.val +                *)
(* maintenance.rate.val of the same result, and deficit.rate.val is        *)
(* deficit.volumeLessBolus.val divided by deficitReplacementDuration.      *)
C15_StartingFluidRateIsSum ==
    Returned =>
        /\ result.startingFluidRate.val =
               result.deficit.rate.val + result.maintenance.rate.val
        \* rate.val / RateDen mL/hour = (volumeLessBolus.val / 10 mL) / duration
        /\ result.deficit.rate.val * 10 * config.deficitReplacementDuration =
               result.deficit.volumeLessBolus.val * RateDen(config)

\* No shock, a bolus subtracted, and a deficit rate that is not a whole number
\* of tenths of a mL/hour: nothing was rounded on the way to the sum.
C15_Witness ==
    /\ Returned /\ ~data.shockPresent /\ errors = <<>>
    /\ result.deficit.volumeLessBolus.val < result.deficit.volume.val.n
    /\ (result.deficit.rate.val * 10) % RateDen(config) # 0
    /\ result.startingFluidRate.val =
           result.deficit.rate.val + result.maintenance.rate.val

(* C16 as stated: for every input with numeric weight and pH and boolean   *)
(* shockPresent the engine returns a result holding all eight quantity     *)
(* nodes together with the error list, and every failing node's error is   *)
(* in that list.                                                           *)
QuantityNodes ==
    {"severity", "bolusVolume", "deficit", "maintenance", "startingFluidRate",
     "insulinRate", "glucoseBolusVolume", "hhsBolusVolume"}

C16_AllNodesAndErrorsReturned ==
    Called =>
        /\ Returned
        /\ DOMAIN result = QuantityNodes
        /\ NoTierMatches => {"classification", "deficitPercentage"} \subseteq ErrorKinds
        /\ data.insulinRate \notin {5, 10} => "insulinRateCap" \in ErrorKinds

\* What remains of C16 when no node throws: all nodes and every node's error.
C16_HoldsWhenNoNodeThrows ==
    Returned =>
        /\ DOMAIN result = QuantityNodes
        /\ NoTierMatches => {"classification", "deficitPercentage"} \subseteq ErrorKinds

(* C17: when the error list returned by the engine is non-empty, the       *)
(* /calculate handler has answered 400 with that list and takes no later   *)
(* step: no IMD lookup, no audit ID generated, no numeric results sent,    *)
(* and no row whose calculations carry errors is ever in the table.        *)
C17_EngineErrorsAnswered400 ==
    /\ (pc # "idle" /\ errors # <<>>) =>
           /\ pc = "responded"
           /\ response = Respond(400, [errors |-> errors])
           /\ imdDecile = NoImdDecile
           /\ auditID = NoAuditID
    /\ \A i \in DOMAIN episodes : episodes[i].calculations.errors = <<>>

\* A request with engine errors answered 400 while the table already holds an
\* episode of an earlier, error-free request and has room for another.
C17_Witness ==
    /\ pc = "responded" /\ errors # <<>>
    /\ response.status = 400
    /\ Len(episodes) = 1

CarriesIsCapped(node, uncapped, ceiling) ==
    /\ "isCapped" \in DOMAIN node
    /\ node.isCapped \in BOOLEAN
    /\ node.isCapped = (uncapped > ceiling)

C19_EveryCappedQuantityCarriesIsCapped ==
    (Returned /\ errors = <<>>) =>
        /\ CarriesIsCapped(result.bolusVolume,
                           data.weight * config.bolusMlsPerKg, config.caps.bolus)
        /\ CarriesIsCapped(result.deficit.volume,
                           result.deficit.percentage.val.n * data.weight * 10,
                           DeficitCeiling(result.deficit.percentage.val.n))
        /\ CarriesIsCapped(result.maintenance.volume,
                           MaintenanceFormula(data.weight), config.caps.maintenance)
        /\ CarriesIsCapped(result.insulinRate,
                           data.insulinRate * data.weight, InsulinCeiling)
        /\ CarriesIsCapped(result.glucoseBolusVolume,
                           data.weight * config.glucoseBolusMlsPerKg, config.caps.glucoseBolus)
        /\ CarriesIsCapped(result.hhsBolusVolume,
                           data.weight * config.hhsBolusMlsPerKg, config.caps.hhsBolus)

\* What remains of C19 without maintenance.volume: the other five carry it.
C19_HoldsForOtherQuantities ==
    (Returned /\ errors = <<>>) =>
        /\ CarriesIsCapped(result.bolusVolume,
                           data.weight * config.bolusMlsPerKg, config.caps.bolus)
        /\ CarriesIsCapped(result.deficit.volume,
                           result.deficit.percentage.val.n * data.weight * 10,
                           DeficitCeiling(result.deficit.percentage.val.n))
        /\ CarriesIsCapped(result.insulinRate,
                           data.insulinRate * data.weight, InsulinCeiling)
        /\ CarriesIsCapped(result.glucoseBolusVolume,
                           data.weight * config.glucoseBolusMlsPerKg, config.caps.glucoseBolus)
        /\ CarriesIsCapped(result.hhsBolusVolume,
                           data.weight * config.hhsBolusMlsPerKg, config.caps.hhsBolus)
        /\ "isCapped" \notin DOMAIN result.maintenance.volume

(* C20 as stated: for bolusVolume, glucoseBolusVolume and hhsBolusVolume   *)
(* the figure at the end of the working string is the uncapped product     *)
(* weight x rate, the string carries "(exceeds limit)" exactly when        *)
(* isCapped is true, and val is the capped figure.                         *)
WorkingShowsUncapped(node, rate, ceiling) ==
    /\ node.working.result = ToFixed0(data.weight * rate)
    /\ node.working.exceedsLimit = node.isCapped
    /\ node.val = (IF data.weight * rate > ceiling THEN ceiling ELSE data.weight * rate)

C20_BolusWorkingShowsUncapped ==
    Returned =>
        /\ WorkingShowsUncapped(result.bolusVolume, config.bolusMlsPerKg, config.caps.bolus)
        /\ WorkingShowsUncapped(result.glucoseBolusVolume, config.glucoseBolusMlsPerKg,
                                config.caps.glucoseBolus)
        /\ WorkingShowsUncapped(result.hhsBolusVolume, config.hhsBolusMlsPerKg,
                                config.caps.hhsBolus)

\* What remains of C20 while no bolus is over its ceiling.
C20_HoldsWhenNotCapped ==
    (Returned /\ ~result.bolusVolume.isCapped /\ ~result.glucoseBolusVolume.isCapped
        /\ ~result.hhsBolusVolume.isCapped) =>
        /\ WorkingShowsUncapped(result.bolusVolume, config.bolusMlsPerKg, config.caps.bolus)
        /\ WorkingShowsUncapped(result.glucoseBolusVolume, config.glucoseBolusMlsPerKg,
                                config.caps.glucoseBolus)
        /\ WorkingShowsUncapped(result.hhsBolusVolume, config.hhsBolusMlsPerKg,
                                config.caps.hhsBolus)

(* C21: after any sequence of /calculate requests, also when the check for *)
(* an existing ID of one request and the insert of another interleave, no  *)
(* two rows of tbl_data_v2 share an auditID.                               *)
C21_NoTwoEpisodesShareAuditID ==
    \A i, j \in DOMAIN episodes :
        episodes[i].auditID = episodes[j].auditID => i = j

\* It holds of requests handled one at a time.
C21_HoldsOneRequestAtATime == Cardinality(StoredAuditIDs) = Len(episodes)

(* C22: /update writes only when an episode is stored for the audit ID,    *)
(* that episode has a patientHash and the salted rehash of the submitted   *)
(* patientHash equals it; otherwise it answers 404 (no episode), 406 (no   *)
(* patientHash) or 401 (hashes differ).                                    *)
EpisodesOfUpdate ==
    {i \in DOMAIN episodes : episodes[i].auditID = update.data.auditID}
EpisodeHasHash == \E i \in EpisodesOfUpdate : episodes[i].patientHash # Null
EpisodeHashMatches ==
    \E i \in EpisodesOfUpdate :
        episodes[i].patientHash = rehashPatientHash(update.data.patientHash)
UpdateWrites == update.pc \in {"write", "written"} \/ update.status = 200
\* The handler has answered and the query of updateCheck was executed.
UpdateAnsweredAfterQuery == update.pc = "responded" /\ update.queried

C22_UpdateOnlyForVerifiedEpisode ==
    /\ UpdateWrites => (EpisodesOfUpdate # {} /\ EpisodeHasHash /\ EpisodeHashMatches)
    /\ UpdateAnsweredAfterQuery =>
        /\ EpisodesOfUpdate = {} => update.status = 404
        /\ (EpisodesOfUpdate # {} /\ ~EpisodeHasHash) => update.status = 406
        /\ (EpisodeHasHash /\ ~EpisodeHashMatches) => update.status = 401

\* It holds of the audit IDs that have an episode.
C22_HoldsForStoredEpisodes ==
    /\ UpdateWrites => (EpisodesOfUpdate # {} /\ EpisodeHasHash /\ EpisodeHashMatches)
    /\ (UpdateAnsweredAfterQuery /\ EpisodesOfUpdate # {}) =>
        /\ ~EpisodeHasHash => update.status = 406
        /\ (EpisodeHasHash /\ ~EpisodeHashMatches) => update.status = 401

(* C23: a validated /calculate request gets exactly one answer; the 200    *)
(* answer with auditID and calculations is sent only after                 *)
(* insertCalculateData has stored the row of that auditID; a failure of    *)
(* the IMD lookup, of generateAuditID or of the insert gives a 500 answer  *)
(* and no 200 answer.                                                      *)
Awaiting == pc \in {"lookup", "generate", "insert", "inserted"}
AwaitedFunctions == {"getImdDecile", "generateAuditID", "insertCalculateData"}

C23_ExactlyOneResponse ==
    /\ sent <= 1
    /\ Awaiting => (sent = 0 /\ response = NoResponse)
    /\ pc = "responded" => (sent = 1 /\ response.status \in {200, 400, 500})
    /\ response.status = 200 =>
        /\ pc = "responded"
        /\ auditID # NoAuditID
        /\ response.body.auditID = auditID
        /\ response.body.calculations = [tree |-> result, errors |-> errors]
        /\ \E i \in DOMAIN episodes :
               episodes[i] = Row(data, auditID, errors)
    /\ (response.status = 500 /\ response.body.message \in AwaitedFunctions) =>
        /\ pc = "responded"
        /\ sent = 1
        /\ response.body.message = "getImdDecile" => auditID = NoAuditID
        /\ response.body.message = "generateAuditID" => auditID = NoAuditID
        /\ auditID \notin StoredAuditIDs

C23_Witness ==
    /\ pc = "responded"
    /\ response.status = 200
    /\ sent = 1
    /\ Len(episodes) = MaxEpisodes
    /\ episodes[Len(episodes)].auditID = auditID

(* C24: checkWeightWithinLimit passes whenever weightLimitOverride is      *)
(* true; otherwise it passes iff lower(sex, months) <= weight <=           *)
(* min(upper(sex, months), weightLimits.max); it never throws and fails    *)
(* with an error message for every other input, also an age without a      *)
(* table entry; /calculate calculates and stores nothing when it fails.    *)
WeightChecked == pc # "idle"
AgeInMonths == (body.patientAge * 12 + 50) \div 100
HasLimits == AgeInMonths \in DOMAIN weightLimits[body.patientSex].lower
LowerLimit == weightLimits[body.patientSex].lower[AgeInMonths]
UpperLimit ==
    LET upper == weightLimits[body.patientSex].upper[AgeInMonths]
    IN  IF upper < weightLimits.max THEN upper ELSE weightLimits.max
\* body.weight is in tenths of a kg, the limits are in thousandths.
WithinLimits ==
    HasLimits /\ LowerLimit <= body.weight * 100 /\ body.weight * 100 <= UpperLimit
WithinRoundedLimits ==
    /\ HasLimits
    /\ ToFixed2(LowerLimit) <= body.weight * 10
    /\ body.weight * 10 <= ToFixed2(UpperLimit)
FailedCheckStopsHandler ==
    ~check.pass =>
        /\ check.error # "undefined"
        /\ pc = "responded"
        /\ response.status = 400
        /\ result = NoResult
        /\ imdDecile = NoImdDecile
        /\ auditID = NoAuditID

C24_Original ==
    WeightChecked =>
        /\ body.weightLimitOverride => check.pass
        /\ ~body.weightLimitOverride => (check.pass <=> WithinLimits)
        /\ FailedCheckStopsHandler

\* C24, amended: the limits are compared after rounding to two decimals.
C24_PassIffWithinRoundedLimits ==
    WeightChecked =>
        /\ body.weightLimitOverride => check.pass
        /\ ~body.weightLimitOverride => (check.pass <=> WithinRoundedLimits)
        /\ FailedCheckStopsHandler

C24_Witness ==
    /\ WeightChecked
    /\ ~body.weightLimitOverride
    /\ check.pass
    /\ ~WithinLimits
    /\ Len(episodes) > 0

(* C25: before the insert, /calculate replaces only an absent bicarbonate  *)
(* with null; a value the client sent, 0 included, reaches                 *)
(* insertCalculateData unchanged.                                          *)
PersistedBicarbonate == episodes[Len(episodes)].bicarbonate

C25_ProvidedValuesPersistedUnchanged ==
    pc = "inserted" =>
        PersistedBicarbonate =
            IF body.bicarbonate = Undefined THEN Null ELSE body.bicarbonate

\* It holds of an absent bicarbonate.
C25_HoldsWhenAbsent ==
    (pc = "inserted" /\ body.bicarbonate = Undefined) => PersistedBicarbonate = Null

(* C26: every connection that generateAuditID, insertCalculateData,        *)
(* updateData and insertSodiumOsmoData open is closed before the function  *)
(* returns or throws.                                                      *)
C26_EveryConnectionClosed == openConnections = {}

(* C27: on a successful /update the row updateData wrote has the address   *)
(* of the requesting client, req.ip, in its clientIP column.               *)
C27_UpdateRowRecordsClientIP ==
    update.status = 200 =>
        updates[Len(updates)].clientIP = Str(update.data.ip)

(* C28: the error list calculateVariables returns is empty iff a severity  *)
(* tier matched, that tier's deficit percentage is 5 or 10, and the        *)
(* insulin rate option is 0.05 or 0.1; in that case the pass returns,      *)
(* severity is severe, moderate or mild and every val of the tree is a     *)
(* number.                                                                 *)
ErrorFreeConditions ==
    /\ \E t \in Tiers : TierMatches(t)
    /\ severity \in Tiers
    /\ config.severity[severity].deficitPercentage \in {5, 10}
    /\ data.insulinRate \in {5, 10}

C28_ErrorListEmptyIff ==
    Called =>
        /\ ErrorFreeConditions => Returned
        /\ Returned => (errors = <<>> <=> ErrorFreeConditions)
        /\ (Returned /\ errors = <<>>) =>
               /\ result.severity \in Tiers
               /\ IsNumber(result.deficit.percentage.val)
               /\ IsNumber(result.deficit.volume.val)
               /\ IsNumber(result.insulinRate.val)
               /\ {result.bolusVolume.val, result.glucoseBolusVolume.val,
                   result.hhsBolusVolume.val, result.deficit.volumeLessBolus.val,
                   result.deficit.rate.val, result.maintenance.volume.val,
                   result.maintenance.rate.val, result.startingFluidRate.val} \subseteq Int

\* Both sides: an error-free mild result, reached by bicarbonate alone.
C28_Witness ==
    /\ Returned /\ errors = <<>> /\ ErrorFreeConditions
    /\ severity = "mild" /\ ~PHInRange("mild")
    /\ result.deficit.volume.val.n > 0

ErrorKindsInOrder == [i \in DOMAIN errors |-> errors[i].kind]

(* C29 as stated: with a valid insulin option, undetermined severity gives *)
(* exactly the four errors classification, deficit percentage, deficit     *)
(* volume cap, deficit volume limit string, in this order; a determined    *)
(* severity gives a returned, empty error list.                            *)
C29_Original ==
    (Called /\ data.insulinRate \in {5, 10}) =>
        /\ severity = NoSeverity =>
               /\ Returned
               /\ ErrorKindsInOrder = <<"classification", "deficitPercentage",
                                        "deficitVolumeCap", "deficitVolumeLimit">>
        /\ severity \in Tiers => (Returned /\ errors = <<>>)

(* C29 amended: with a valid insulin option, undetermined severity gives   *)
(* exactly the four errors classification, deficit percentage, deficit     *)
(* volume cap, deficit volume limit string, in this order; a determined    *)
(* severity whose deficit percentage has a configured ceiling (5 or 10)    *)
(* gives a returned, empty error list.                                     *)
C29_FourErrorsInOrderOrNone ==
    (Called /\ data.insulinRate \in {5, 10}) =>
        /\ severity = NoSeverity =>
               /\ Returned
               /\ ErrorKindsInOrder = <<"classification", "deficitPercentage",
                                        "deficitVolumeCap", "deficitVolumeLimit">>
        /\ (severity \in Tiers /\ config.severity[severity].deficitPercentage \in {5, 10})
               => (Returned /\ errors = <<>>)

\* Undetermined severity with bicarbonate present: the four errors, the
\* classification error quoting the bicarbonate figure.
C29_Witness ==
    /\ Returned /\ severity = NoSeverity /\ BicarbonatePresent
    /\ Len(errors) = 4
    /\ errors[1].kind = "classification" /\ errors[4].kind = "deficitVolumeLimit"

(* C30: under a configuration whose deficit caps are each at least the     *)
(* bolus cap and whose deficit percentages times 10 are each at least      *)
(* bolusMlsPerKg, every error-free result has volumeLessBolus.val >= 0,    *)
(* deficit.rate.val >= 0 and startingFluidRate.val > 0; a negative         *)
(* volumeLessBolus.val comes only with a non-empty error list, undetermined *)
(* severity and shockPresent false.                                        *)
DeficitCoversBolus ==
    /\ config.caps.deficit5 >= config.caps.bolus
    /\ config.caps.deficit10 >= config.caps.bolus
    /\ \A t \in Tiers : 10 * config.severity[t].deficitPercentage >= config.bolusMlsPerKg

C30_NoErrorNoNegativeFluid ==
    (Returned /\ DeficitCoversBolus) =>
        /\ errors = <<>> =>
               /\ result.deficit.volumeLessBolus.val >= 0
               /\ result.deficit.rate.val >= 0
               /\ result.startingFluidRate.val > 0
        /\ result.deficit.volumeLessBolus.val < 0 =>
               /\ errors # <<>>
               /\ severity = NoSeverity
               /\ ~data.shockPresent

\* No shock, both the deficit volume and the bolus on their ceilings.
C30_Witness ==
    /\ Returned /\ DeficitCoversBolus /\ errors = <<>> /\ ~data.shockPresent
    /\ result.deficit.volume.isCapped /\ result.bolusVolume.isCapped
    /\ result.deficit.volumeLessBolus.val >= 0
    /\ result.deficit.volumeLessBolus.val < result.deficit.volume.val.n

====
